---- MODULE Spec2Model ----
(***************************************************************************)
(* Model of src/src/brainfuck.rs: scanner, recursive-descent parser,       *)
(* run-length optimizer, tree-walking interpreter and IR emitter.          *)
(*                                                                         *)
(* A DebugInfo is [line, column]; directory and file are the same two      *)
(* strings in every DebugInfo of one compilation and are left out.         *)
(* A Symbol is [kind, d].  A Node is [kind, v, nodes, d]: v is the count   *)
(* of a delta node (0 for the others), nodes the children of a Loop        *)
(* (<<>> for the others).                                                  *)
(*                                                                         *)
(* Every loop and every recursive call of the source is unrolled into      *)
(* steps: one action per loop iteration or match arm, the call stacks of   *)
(* add_node, optimize_nodes, exec_nodes and gen_ir_nodes kept in pstack,   *)
(* ostack, estack and gstack.                                              *)
(***************************************************************************)
EXTENDS Integers, Sequences, FiniteSets, TLC

\* ---------------------------------------------------------------- bounds
MaxSrcLen == 3
MaxBody == 2
MaxRun == 300
MaxMemSize == 2
MaxOut == 2
MaxIn == 2
MaxIters == 260
MaxPasses == 2
MaxNest == 7
MaxDeep == 3
\* usize is modelled UsizeBits wide: wide enough that no count or cursor of
\* the bounded sources wraps except by the subtraction below zero.
UsizeBits == 12

\* ------------------------------------------------------------- constants
U8 == 256
UsizeMod == 2 ^ UsizeBits
EOF == -1

\* ------------------------------------------------------------ data model
DebugInfo(line, column) == [line |-> line, column |-> column]

Symbol(kind, d) == [kind |-> kind, d |-> d]

Leaf(kind, v, d) == [kind |-> kind, v |-> v, nodes |-> <<>>, d |-> d]

Loop(nodes, d) == [kind |-> "Loop", v |-> 0, nodes |-> nodes, d |-> d]

DeltaKinds == {"IncPtr", "DecPtr", "Increment", "Decrement"}

\* ------------------------------------------------------------------ state
VARIABLES
  pc,        \* the stage of the pipeline that runs next
  source,    \* the bytes of the reader
  sc,        \* scanner: index of the next byte, line, column
  symbols,   \* the symbol queue
  pstack,    \* parser: one frame per add_node call that is collecting nodes
  perr,      \* the ParseError returned by Ast::parse, if any
  ast,       \* Ast.nodes
  ostack,    \* optimizer: one frame per optimize_nodes call
  run,       \* optimizer: the delta arm's accumulator
  passes,    \* number of completed calls of Ast::optimize
  prev_ast,  \* Ast.nodes as they were when the last call of optimize began
  mem_size,  \* Program.mem_size and ProgramState.mem_size
  ptr,       \* ProgramState.ptr
  mem,       \* ProgramState.mem, indexed from 0
  estack,    \* interpreter: one frame per exec_nodes call
  fault,     \* the Err an exec_nodes call is returning, if any
  result,    \* what Program::exec returned
  out,       \* the characters printed on standard output
  nin,       \* the number of getchar calls: each takes the next byte of
             \* standard input, or returns EOF at its end
  iters,     \* the number of loop body executions begun
  next_label, \* IrState.next_label
  ir,         \* the String gen_ir builds, one element per line pushed
  gstack,     \* emitter: one frame per gen_ir_nodes call
  stdin,      \* what the getchar calls on standard input returned, in order
  first       \* what interpreting the tree as parsed was seen to do, once
              \* that is over and the same source is run optimized

vars == <<pc, source, sc, symbols, pstack, perr, ast, ostack, run, passes, prev_ast,
          mem_size, ptr, mem, estack, fault, result, out, nin, iters,
          next_label, ir, gstack, stdin, first>>

scanVars == <<source, sc, symbols>>
parseVars == <<pstack, perr>>
optVars == <<ostack, run, passes, prev_ast>>
execVars == <<mem_size, ptr, mem, estack, fault, result, out, nin, iters>>
irVars == <<next_label, ir, gstack>>
runVars == <<stdin, first>>

\* ---------------------------------------------------------------- scanner
\* the match on one byte: the symbol kind pushed, or "none"
SymbolOf(byte) ==
  CASE byte = ">" -> "IncPtr"
    [] byte = "<" -> "DecPtr"
    [] byte = "+" -> "Increment"
    [] byte = "-" -> "Decrement"
    [] byte = "." -> "Output"
    [] byte = "," -> "Input"
    [] byte = "[" -> "OpenBlock"
    [] byte = "]" -> "CloseBlock"
    [] OTHER -> "none"

\* one iteration of the for loop over reader.bytes()
ScanByte ==
  /\ pc = "scan"
  /\ sc.i <= Len(source)
  /\ LET byte == source[sc.i]
         debug == DebugInfo(sc.line, sc.column)
         line1 == IF byte = "\n" THEN sc.line + 1 ELSE sc.line
         column1 == IF byte = "\n" THEN 0 ELSE sc.column
     IN /\ symbols' = IF SymbolOf(byte) = "none" THEN symbols
                      ELSE Append(symbols, Symbol(SymbolOf(byte), debug))
        /\ sc' = [i |-> sc.i + 1, line |-> line1, column |-> column1 + 1]
  /\ UNCHANGED <<pc, source, ast>>
  /\ UNCHANGED parseVars
  /\ UNCHANGED optVars
  /\ UNCHANGED execVars
  /\ UNCHANGED irVars
  /\ UNCHANGED runVars

\* the for loop ends and Ast::parse(symbols) is called
ScanEnd ==
  /\ pc = "scan"
  /\ sc.i > Len(source)
  /\ pc' = "parse"
  /\ UNCHANGED <<source, sc, symbols, ast>>
  /\ UNCHANGED parseVars
  /\ UNCHANGED optVars
  /\ UNCHANGED execVars
  /\ UNCHANGED irVars
  /\ UNCHANGED runVars

\* ----------------------------------------------------------------- parser
\* pstack[1] is Ast::parse with ast.nodes; every further frame is an
\* OpenBlock arm of add_node with its loop_body and its d.
Frame(nodes, d) == [nodes |-> nodes, d |-> d]

NoDebug == DebugInfo(0, 0)

NoError == [tag |-> "none", d |-> NoDebug]

UnmatchedLoop(d) == [tag |-> "UnmatchedLoop", d |-> d]

\* PushNode with push_front for push_back
PushNode_front(stack, node) ==
  [stack EXCEPT ![Len(stack)].nodes = <<node>> \o @]

PushNode(stack, node) ==
  [stack EXCEPT ![Len(stack)].nodes = Append(@, node)]

\* the leaf arms of add_node
LeafArm(kind, d) ==
  IF kind \in DeltaKinds THEN Leaf(kind, 1, d) ELSE Leaf(kind, 0, d)

\* EofInLoop reporting the outermost open bracket instead of the innermost
EofInLoop_outermost(stack) == UnmatchedLoop(stack[2].d)

\* the Eof arm inside the OpenBlock arm; the result is handed up unchanged
\* by every enclosing OpenBlock arm and turned into Err by Ast::parse
EofInLoop(stack) == UnmatchedLoop(stack[Len(stack)].d)

\* the CloseLoop arm of Ast::parse
StrayClose(d) == UnmatchedLoop(d)

\* add_node pops an OpenBlock
ParseOpenBlock ==
  /\ pc = "parse"
  /\ symbols /= <<>>
  /\ Head(symbols).kind = "OpenBlock"
  /\ symbols' = Tail(symbols)
  /\ pstack' = Append(pstack, Frame(<<>>, Head(symbols).d))
  /\ UNCHANGED <<pc, source, sc, perr, ast>>
  /\ UNCHANGED optVars
  /\ UNCHANGED execVars
  /\ UNCHANGED irVars
  /\ UNCHANGED runVars

\* ParseCloseBlock pushing a Loop with a fresh queue instead of loop_body
ParseCloseBlock_emptyBody ==
  /\ pc = "parse"
  /\ symbols /= <<>>
  /\ Head(symbols).kind = "CloseBlock"
  /\ Len(pstack) > 1
  /\ symbols' = Tail(symbols)
  /\ LET top == pstack[Len(pstack)]
     IN pstack' = PushNode(SubSeq(pstack, 1, Len(pstack) - 1), Loop(<<>>, top.d))
  /\ UNCHANGED <<pc, source, sc, perr, ast>>
  /\ UNCHANGED optVars
  /\ UNCHANGED execVars
  /\ UNCHANGED irVars
  /\ UNCHANGED runVars

\* add_node pops a CloseBlock while an OpenBlock arm is collecting: the arm's
\* while ends and the Loop is pushed on the caller's queue
ParseCloseBlock ==
  /\ pc = "parse"
  /\ symbols /= <<>>
  /\ Head(symbols).kind = "CloseBlock"
  /\ Len(pstack) > 1
  /\ symbols' = Tail(symbols)
  /\ LET top == pstack[Len(pstack)]
     IN pstack' = PushNode(SubSeq(pstack, 1, Len(pstack) - 1), Loop(top.nodes, top.d))
  /\ UNCHANGED <<pc, source, sc, perr, ast>>
  /\ UNCHANGED optVars
  /\ UNCHANGED execVars
  /\ UNCHANGED irVars
  /\ UNCHANGED runVars

\* ParseStrayClose with the CloseLoop arm of add_node's while: the close ends
\* the parse with what was collected
ParseStrayClose_ends ==
  /\ pc = "parse"
  /\ symbols /= <<>>
  /\ Head(symbols).kind = "CloseBlock"
  /\ Len(pstack) = 1
  /\ symbols' = Tail(symbols)
  /\ ast' = pstack[1].nodes
  /\ pc' = "parsed"
  /\ UNCHANGED <<source, sc, pstack, perr>>
  /\ UNCHANGED optVars
  /\ UNCHANGED execVars
  /\ UNCHANGED irVars
  /\ UNCHANGED runVars

\* add_node pops a CloseBlock called from Ast::parse itself
ParseStrayClose ==
  /\ pc = "parse"
  /\ symbols /= <<>>
  /\ Head(symbols).kind = "CloseBlock"
  /\ Len(pstack) = 1
  /\ symbols' = Tail(symbols)
  /\ perr' = StrayClose(Head(symbols).d)
  /\ pc' = "parse_error"
  /\ UNCHANGED <<source, sc, pstack, ast>>
  /\ UNCHANGED optVars
  /\ UNCHANGED execVars
  /\ UNCHANGED irVars
  /\ UNCHANGED runVars

\* add_node pops one of the six leaf symbols
ParseLeaf ==
  /\ pc = "parse"
  /\ symbols /= <<>>
  /\ Head(symbols).kind \notin {"OpenBlock", "CloseBlock"}
  /\ symbols' = Tail(symbols)
  /\ pstack' = PushNode(pstack, LeafArm(Head(symbols).kind, Head(symbols).d))
  /\ UNCHANGED <<pc, source, sc, perr, ast>>
  /\ UNCHANGED optVars
  /\ UNCHANGED execVars
  /\ UNCHANGED irVars
  /\ UNCHANGED runVars

\* pop_front gives None inside an OpenBlock arm
ParseEofInLoop ==
  /\ pc = "parse"
  /\ symbols = <<>>
  /\ Len(pstack) > 1
  /\ perr' = EofInLoop(pstack)
  /\ pc' = "parse_error"
  /\ UNCHANGED <<source, sc, symbols, pstack, ast>>
  /\ UNCHANGED optVars
  /\ UNCHANGED execVars
  /\ UNCHANGED irVars
  /\ UNCHANGED runVars

\* pop_front gives None in Ast::parse: Ok(ast), and Brainfuck::parse calls
\* x.optimize()
ParseEof ==
  /\ pc = "parse"
  /\ symbols = <<>>
  /\ Len(pstack) = 1
  /\ ast' = pstack[1].nodes
  /\ pc' = "parsed"
  /\ UNCHANGED <<source, sc, symbols, pstack, perr>>
  /\ UNCHANGED optVars
  /\ UNCHANGED execVars
  /\ UNCHANGED irVars
  /\ UNCHANGED runVars

\* -------------------------------------------------------------- optimizer
\* ostack[1] is the call made by Ast::optimize; every further frame is the
\* call made by the Loop arm for a loop body, d being that Loop's DebugInfo.
OptFrame(opt_nodes, nodes, d) == [opt_nodes |-> opt_nodes, nodes |-> nodes, d |-> d]

NoRun == [active |-> FALSE, kind |-> "none", value |-> 0, d |-> NoDebug]

\* wrapping_add with saturating_add on the u8 counts
wrapping_add_saturating(kind, a, b) ==
  IF kind \in {"IncPtr", "DecPtr"} THEN (a + b) % UsizeMod
  ELSE IF a + b >= U8 THEN U8 - 1 ELSE a + b

\* wrapping_add at the width of the node's count: usize for pointer deltas,
\* u8 for cell deltas
wrapping_add(kind, a, b) ==
  IF kind \in {"IncPtr", "DecPtr"} THEN (a + b) % UsizeMod ELSE (a + b) % U8

\* ContinuesRun taking a front node of any delta kind into the run
ContinuesRun_anyDelta(kind, nodes) == nodes /= <<>> /\ Head(nodes).kind \in DeltaKinds

\* the pattern of the inner while let: the front node continues the run
ContinuesRun(kind, nodes) == nodes /= <<>> /\ Head(nodes).kind = kind

OptTop == ostack[Len(ostack)]

PopFront(stack) == [stack EXCEPT ![Len(stack)].nodes = Tail(@)]

PushOpt(stack, node) == [stack EXCEPT ![Len(stack)].opt_nodes = Append(@, node)]

\* Brainfuck::parse calls x.optimize() on the parsed tree
OptStart ==
  /\ pc = "parsed"
  /\ ostack' = <<OptFrame(<<>>, ast, NoDebug)>>
  /\ prev_ast' = ast
  /\ pc' = "optimize"
  /\ UNCHANGED <<ast, run, passes>>
  /\ UNCHANGED scanVars
  /\ UNCHANGED parseVars
  /\ UNCHANGED execVars
  /\ UNCHANGED irVars
  /\ UNCHANGED runVars

\* Ast::optimize is called once more, on a tree that is already optimized
OptAgain ==
  /\ pc = "optimized"
  /\ passes < MaxPasses
  /\ ostack' = <<OptFrame(<<>>, ast, NoDebug)>>
  /\ prev_ast' = ast
  /\ pc' = "optimize"
  /\ UNCHANGED <<ast, run, passes>>
  /\ UNCHANGED scanVars
  /\ UNCHANGED parseVars
  /\ UNCHANGED execVars
  /\ UNCHANGED irVars
  /\ UNCHANGED runVars

\* the Loop arm: optimize_nodes is called on the loop's children
OptLoop ==
  /\ pc = "optimize"
  /\ ~run.active
  /\ OptTop.nodes /= <<>>
  /\ Head(OptTop.nodes).kind = "Loop"
  /\ LET node == Head(OptTop.nodes)
     IN ostack' = Append(PopFront(ostack), OptFrame(<<>>, node.nodes, node.d))
  /\ UNCHANGED <<pc, ast, run, passes, prev_ast>>
  /\ UNCHANGED scanVars
  /\ UNCHANGED parseVars
  /\ UNCHANGED execVars
  /\ UNCHANGED irVars
  /\ UNCHANGED runVars

\* the call for a loop body returns and the Loop is pushed
OptLoopDone ==
  /\ pc = "optimize"
  /\ ~run.active
  /\ OptTop.nodes = <<>>
  /\ Len(ostack) > 1
  /\ ostack' = PushOpt(SubSeq(ostack, 1, Len(ostack) - 1), Loop(OptTop.opt_nodes, OptTop.d))
  /\ UNCHANGED <<pc, ast, run, passes, prev_ast>>
  /\ UNCHANGED scanVars
  /\ UNCHANGED parseVars
  /\ UNCHANGED execVars
  /\ UNCHANGED irVars
  /\ UNCHANGED runVars

\* SeedRun starting the accumulator at zero instead of the first node's count
SeedRun_zero(node) == [active |-> TRUE, kind |-> node.kind, value |-> 0, d |-> node.d]

\* let mut value = v: the first node of a run seeds the accumulator
SeedRun(node) == [active |-> TRUE, kind |-> node.kind, value |-> node.v, d |-> node.d]

\* a delta arm is entered
OptDelta ==
  /\ pc = "optimize"
  /\ ~run.active
  /\ OptTop.nodes /= <<>>
  /\ Head(OptTop.nodes).kind \in DeltaKinds
  /\ run' = SeedRun(Head(OptTop.nodes))
  /\ ostack' = PopFront(ostack)
  /\ UNCHANGED <<pc, ast, passes, prev_ast>>
  /\ UNCHANGED scanVars
  /\ UNCHANGED parseVars
  /\ UNCHANGED execVars
  /\ UNCHANGED irVars
  /\ UNCHANGED runVars

\* OptCoalesce with `if let` for `while let`: one node is merged and the run
\* is pushed at once
OptCoalesce_once ==
  /\ pc = "optimize"
  /\ run.active
  /\ ContinuesRun(run.kind, OptTop.nodes)
  /\ ostack' = PushOpt(PopFront(ostack),
                       Leaf(run.kind, wrapping_add(run.kind, run.value, Head(OptTop.nodes).v), run.d))
  /\ run' = NoRun
  /\ UNCHANGED <<pc, ast, passes, prev_ast>>
  /\ UNCHANGED scanVars
  /\ UNCHANGED parseVars
  /\ UNCHANGED execVars
  /\ UNCHANGED irVars
  /\ UNCHANGED runVars

\* one iteration of the delta arm's while let
OptCoalesce ==
  /\ pc = "optimize"
  /\ run.active
  /\ ContinuesRun(run.kind, OptTop.nodes)
  /\ run' = [run EXCEPT !.value = wrapping_add(run.kind, run.value, Head(OptTop.nodes).v)]
  /\ ostack' = PopFront(ostack)
  /\ UNCHANGED <<pc, ast, passes, prev_ast>>
  /\ UNCHANGED scanVars
  /\ UNCHANGED parseVars
  /\ UNCHANGED execVars
  /\ UNCHANGED irVars
  /\ UNCHANGED runVars

\* the while let ends and the coalesced node is pushed
OptPushDelta ==
  /\ pc = "optimize"
  /\ run.active
  /\ ~ContinuesRun(run.kind, OptTop.nodes)
  /\ ostack' = PushOpt(ostack, Leaf(run.kind, run.value, run.d))
  /\ run' = NoRun
  /\ UNCHANGED <<pc, ast, passes, prev_ast>>
  /\ UNCHANGED scanVars
  /\ UNCHANGED parseVars
  /\ UNCHANGED execVars
  /\ UNCHANGED irVars
  /\ UNCHANGED runVars

\* the Input and Output arms
OptInputOutput ==
  /\ pc = "optimize"
  /\ ~run.active
  /\ OptTop.nodes /= <<>>
  /\ Head(OptTop.nodes).kind \in {"Input", "Output"}
  /\ LET node == Head(OptTop.nodes)
     IN ostack' = PushOpt(PopFront(ostack), Leaf(node.kind, 0, node.d))
  /\ UNCHANGED <<pc, ast, run, passes, prev_ast>>
  /\ UNCHANGED scanVars
  /\ UNCHANGED parseVars
  /\ UNCHANGED execVars
  /\ UNCHANGED irVars
  /\ UNCHANGED runVars

\* the outermost optimize_nodes returns: self.nodes = opt_nodes
OptEnd ==
  /\ pc = "optimize"
  /\ ~run.active
  /\ OptTop.nodes = <<>>
  /\ Len(ostack) = 1
  /\ ast' = OptTop.opt_nodes
  /\ passes' = passes + 1
  /\ pc' = "optimized"
  /\ UNCHANGED <<ostack, run, prev_ast>>
  /\ UNCHANGED scanVars
  /\ UNCHANGED parseVars
  /\ UNCHANGED execVars
  /\ UNCHANGED irVars
  /\ UNCHANGED runVars

\* ------------------------------------------------------------ interpreter
\* estack[1] is the call of exec_nodes made by Program::exec; every further
\* frame is the call made by a Loop arm for its body.  i is the position of
\* the for loop in the frame's nodes.
ExecFrame(nodes, i) == [nodes |-> nodes, i |-> i]

NoFault == [tag |-> "none", d |-> NoDebug]

OutOfBounds(d) == [tag |-> "OutOfBounds", d |-> d]

ResultOk == [tag |-> "Ok", d |-> NoDebug]

\* ProgramState::is_oob
is_oob(p, size) == p >= size

\* usize::wrapping_add and usize::wrapping_sub on the cursor
ptr_wrapping_add(p, v) == (p + v) % UsizeMod

ptr_wrapping_sub(p, v) == (p - v) % UsizeMod

\* u8::wrapping_add and u8::wrapping_sub on a cell
u8_wrapping_add(a, v) == (a + v) % U8

u8_wrapping_sub(a, v) == (a - v) % U8

\* val as u8, val being the c_int of getchar
as_u8(val) == val % U8

\* what getchar can return: EOF or an unsigned char
InputVals == {EOF, 0, 1, 65}

\* libc::getchar() returns val: the nin-th call returns the nin-th value of
\* standard input, which is any value the first time it is read
getchar(val) ==
  /\ nin' = nin + 1
  /\ IF nin < Len(stdin) THEN val = stdin[nin + 1] /\ UNCHANGED stdin
     ELSE stdin' = Append(stdin, val)

\* nothing was interpreted before this run
NoFirst ==
  [tag |-> "none", mem_size |-> 0, out |-> <<>>, nin |-> 0, mem |-> <<>>, ptr |-> 0,
   result |-> NoFault]

ExecTop == estack[Len(estack)]

\* the node the for loop of the running exec_nodes call is at
Running ==
  /\ pc = "exec"
  /\ fault.tag = "none"
  /\ ExecTop.i <= Len(ExecTop.nodes)

Cur == ExecTop.nodes[ExecTop.i]

Advance(stack) == [stack EXCEPT ![Len(stack)].i = @ + 1]

\* cells are indexed from 0 as in the Vec
Cell == mem[ptr]

\* ExecStart with ProgramState::new pushing one cell more than mem_size
ExecStart_extraCell ==
  /\ pc = "optimized"
  /\ passes = 1
  /\ \E size \in 0..MaxMemSize :
       /\ mem_size' = size
       /\ ptr' = size \div 2
       /\ mem' = [c \in 0..size |-> 0]
  /\ estack' = <<ExecFrame(ast, 1)>>
  /\ pc' = "exec"
  /\ UNCHANGED <<ast, fault, result, out, nin, iters>>
  /\ UNCHANGED scanVars
  /\ UNCHANGED parseVars
  /\ UNCHANGED optVars
  /\ UNCHANGED irVars
  /\ UNCHANGED runVars

\* Program::new(x, mem_size) and Program::exec up to the call of exec_nodes;
\* Brainfuck::parse passes 100000 for mem_size, here any size up to MaxMemSize
ExecStart ==
  /\ pc = "optimized"
  /\ passes = 1
  /\ \E size \in 0..MaxMemSize :
       /\ mem_size' = size
       /\ ptr' = size \div 2
       /\ mem' = [c \in 0..(size - 1) |-> 0]
  /\ estack' = <<ExecFrame(ast, 1)>>
  /\ pc' = "exec"
  /\ UNCHANGED <<ast, fault, result, out, nin, iters>>
  /\ UNCHANGED scanVars
  /\ UNCHANGED parseVars
  /\ UNCHANGED optVars
  /\ UNCHANGED irVars
  /\ UNCHANGED runVars

ExecIncPtr ==
  /\ Running
  /\ Cur.kind = "IncPtr"
  /\ ptr' = ptr_wrapping_add(ptr, Cur.v)
  /\ estack' = Advance(estack)
  /\ UNCHANGED <<pc, ast, mem_size, mem, fault, result, out, nin, iters>>
  /\ UNCHANGED scanVars
  /\ UNCHANGED parseVars
  /\ UNCHANGED optVars
  /\ UNCHANGED irVars
  /\ UNCHANGED runVars

\* ExecDecPtr with an eager bounds check on the cursor it computes
ExecDecPtr_eager ==
  /\ Running
  /\ Cur.kind = "DecPtr"
  /\ IF is_oob(ptr_wrapping_sub(ptr, Cur.v), mem_size)
     THEN /\ fault' = OutOfBounds(Cur.d)
          /\ UNCHANGED <<ptr, estack>>
     ELSE /\ ptr' = ptr_wrapping_sub(ptr, Cur.v)
          /\ estack' = Advance(estack)
          /\ UNCHANGED fault
  /\ UNCHANGED <<pc, ast, mem_size, mem, result, out, nin, iters>>
  /\ UNCHANGED scanVars
  /\ UNCHANGED parseVars
  /\ UNCHANGED optVars
  /\ UNCHANGED irVars
  /\ UNCHANGED runVars

ExecDecPtr ==
  /\ Running
  /\ Cur.kind = "DecPtr"
  /\ ptr' = ptr_wrapping_sub(ptr, Cur.v)
  /\ estack' = Advance(estack)
  /\ UNCHANGED <<pc, ast, mem_size, mem, fault, result, out, nin, iters>>
  /\ UNCHANGED scanVars
  /\ UNCHANGED parseVars
  /\ UNCHANGED optVars
  /\ UNCHANGED irVars
  /\ UNCHANGED runVars

\* ExecIncrement adding one whatever the count of the node
ExecIncrement_one ==
  /\ Running
  /\ Cur.kind = "Increment"
  /\ IF is_oob(ptr, mem_size)
     THEN /\ fault' = OutOfBounds(Cur.d)
          /\ UNCHANGED <<mem, estack>>
     ELSE /\ mem' = [mem EXCEPT ![ptr] = u8_wrapping_add(Cell, 1)]
          /\ estack' = Advance(estack)
          /\ UNCHANGED fault
  /\ UNCHANGED <<pc, ast, mem_size, ptr, result, out, nin, iters>>
  /\ UNCHANGED scanVars
  /\ UNCHANGED parseVars
  /\ UNCHANGED optVars
  /\ UNCHANGED irVars
  /\ UNCHANGED runVars

ExecIncrement ==
  /\ Running
  /\ Cur.kind = "Increment"
  /\ IF is_oob(ptr, mem_size)
     THEN /\ fault' = OutOfBounds(Cur.d)
          /\ UNCHANGED <<mem, estack>>
     ELSE /\ mem' = [mem EXCEPT ![ptr] = u8_wrapping_add(Cell, Cur.v)]
          /\ estack' = Advance(estack)
          /\ UNCHANGED fault
  /\ UNCHANGED <<pc, ast, mem_size, ptr, result, out, nin, iters>>
  /\ UNCHANGED scanVars
  /\ UNCHANGED parseVars
  /\ UNCHANGED optVars
  /\ UNCHANGED irVars
  /\ UNCHANGED runVars

ExecDecrement ==
  /\ Running
  /\ Cur.kind = "Decrement"
  /\ IF is_oob(ptr, mem_size)
     THEN /\ fault' = OutOfBounds(Cur.d)
          /\ UNCHANGED <<mem, estack>>
     ELSE /\ mem' = [mem EXCEPT ![ptr] = u8_wrapping_sub(Cell, Cur.v)]
          /\ estack' = Advance(estack)
          /\ UNCHANGED fault
  /\ UNCHANGED <<pc, ast, mem_size, ptr, result, out, nin, iters>>
  /\ UNCHANGED scanVars
  /\ UNCHANGED parseVars
  /\ UNCHANGED optVars
  /\ UNCHANGED irVars
  /\ UNCHANGED runVars

\* ExecOutput without the bounds check: nothing is written and no fault is
\* raised when the cursor is out of range
ExecOutput_unchecked ==
  /\ Running
  /\ Cur.kind = "Output"
  /\ IF is_oob(ptr, mem_size)
     THEN /\ estack' = Advance(estack)
          /\ UNCHANGED <<out, fault>>
     ELSE /\ Len(out) < MaxOut
          /\ out' = Append(out, Cell)
          /\ estack' = Advance(estack)
          /\ UNCHANGED fault
  /\ UNCHANGED <<pc, ast, mem_size, ptr, mem, result, nin, iters>>
  /\ UNCHANGED scanVars
  /\ UNCHANGED parseVars
  /\ UNCHANGED optVars
  /\ UNCHANGED irVars
  /\ UNCHANGED runVars

\* out is the sequence of characters printed so far
ExecOutput ==
  /\ Running
  /\ Cur.kind = "Output"
  /\ IF is_oob(ptr, mem_size)
     THEN /\ fault' = OutOfBounds(Cur.d)
          /\ UNCHANGED <<out, estack>>
     ELSE /\ Len(out) < MaxOut
          /\ out' = Append(out, Cell)
          /\ estack' = Advance(estack)
          /\ UNCHANGED fault
  /\ UNCHANGED <<pc, ast, mem_size, ptr, mem, result, nin, iters>>
  /\ UNCHANGED scanVars
  /\ UNCHANGED parseVars
  /\ UNCHANGED optVars
  /\ UNCHANGED irVars
  /\ UNCHANGED runVars

\* ExecInput with the bounds check before getchar, as in the Output arm
ExecInput_checkFirst ==
  /\ Running
  /\ Cur.kind = "Input"
  /\ nin < MaxIn
  /\ IF is_oob(ptr, mem_size)
     THEN /\ fault' = OutOfBounds(Cur.d)
          /\ UNCHANGED <<mem, estack, nin, stdin>>
     ELSE \E val \in InputVals :
            /\ getchar(val)
            /\ mem' = [mem EXCEPT ![ptr] = as_u8(val)]
            /\ estack' = Advance(estack)
            /\ UNCHANGED fault
  /\ UNCHANGED <<pc, ast, mem_size, ptr, result, out, iters>>
  /\ UNCHANGED scanVars
  /\ UNCHANGED parseVars
  /\ UNCHANGED optVars
  /\ UNCHANGED irVars
  /\ UNCHANGED first

\* getchar runs before the bounds check
ExecInput ==
  /\ Running
  /\ Cur.kind = "Input"
  /\ nin < MaxIn
  /\ \E val \in InputVals :
       /\ getchar(val)
       /\ IF is_oob(ptr, mem_size)
          THEN /\ fault' = OutOfBounds(Cur.d)
               /\ UNCHANGED <<mem, estack>>
          ELSE /\ mem' = [mem EXCEPT ![ptr] = as_u8(val)]
               /\ estack' = Advance(estack)
               /\ UNCHANGED fault
  /\ UNCHANGED <<pc, ast, mem_size, ptr, result, out, iters>>
  /\ UNCHANGED scanVars
  /\ UNCHANGED parseVars
  /\ UNCHANGED optVars
  /\ UNCHANGED irVars
  /\ UNCHANGED first

\* the Loop arm is entered: the bounds check, then the first test of the
\* while; iters counts the calls of exec_nodes for a loop body
ExecLoop ==
  /\ Running
  /\ Cur.kind = "Loop"
  /\ IF is_oob(ptr, mem_size)
     THEN /\ fault' = OutOfBounds(Cur.d)
          /\ UNCHANGED <<estack, iters>>
     ELSE /\ UNCHANGED fault
          /\ IF Cell /= 0
             THEN /\ iters < MaxIters
                  /\ iters' = iters + 1
                  /\ estack' = Append(estack, ExecFrame(Cur.nodes, 1))
             ELSE /\ estack' = Advance(estack)
                  /\ UNCHANGED iters
  /\ UNCHANGED <<pc, ast, mem_size, ptr, mem, result, out, nin>>
  /\ UNCHANGED scanVars
  /\ UNCHANGED parseVars
  /\ UNCHANGED optVars
  /\ UNCHANGED irVars
  /\ UNCHANGED runVars

\* ExecLoopIter with `if` for `while`: the body is not run again
ExecLoopIter_once ==
  /\ pc = "exec"
  /\ fault.tag = "none"
  /\ ExecTop.i > Len(ExecTop.nodes)
  /\ Len(estack) > 1
  /\ LET caller == SubSeq(estack, 1, Len(estack) - 1)
         loop == caller[Len(caller)].nodes[caller[Len(caller)].i]
     IN IF is_oob(ptr, mem_size)
        THEN /\ fault' = OutOfBounds(loop.d)
             /\ estack' = caller
        ELSE /\ UNCHANGED fault
             /\ estack' = Advance(caller)
  /\ UNCHANGED <<pc, ast, mem_size, ptr, mem, result, out, nin, iters>>
  /\ UNCHANGED scanVars
  /\ UNCHANGED parseVars
  /\ UNCHANGED optVars
  /\ UNCHANGED irVars
  /\ UNCHANGED runVars

\* the call for a loop body returns Ok: the bounds check after the
\* iteration, then the next test of the while
ExecLoopIter ==
  /\ pc = "exec"
  /\ fault.tag = "none"
  /\ ExecTop.i > Len(ExecTop.nodes)
  /\ Len(estack) > 1
  /\ LET caller == SubSeq(estack, 1, Len(estack) - 1)
         loop == caller[Len(caller)].nodes[caller[Len(caller)].i]
     IN IF is_oob(ptr, mem_size)
        THEN /\ fault' = OutOfBounds(loop.d)
             /\ estack' = caller
             /\ UNCHANGED iters
        ELSE /\ UNCHANGED fault
             /\ IF Cell /= 0
                THEN /\ iters < MaxIters
                     /\ iters' = iters + 1
                     /\ estack' = Append(caller, ExecFrame(loop.nodes, 1))
                ELSE /\ estack' = Advance(caller)
                     /\ UNCHANGED iters
  /\ UNCHANGED <<pc, ast, mem_size, ptr, mem, result, out, nin>>
  /\ UNCHANGED scanVars
  /\ UNCHANGED parseVars
  /\ UNCHANGED optVars
  /\ UNCHANGED irVars
  /\ UNCHANGED runVars

\* ExecPropagate with the Loop arm putting its own position in the error
ExecPropagate_ownPosition ==
  /\ pc = "exec"
  /\ fault.tag /= "none"
  /\ Len(estack) > 1
  /\ LET caller == SubSeq(estack, 1, Len(estack) - 1)
     IN /\ fault' = OutOfBounds(caller[Len(caller)].nodes[caller[Len(caller)].i].d)
        /\ estack' = caller
  /\ UNCHANGED <<pc, ast, mem_size, ptr, mem, result, out, nin, iters>>
  /\ UNCHANGED scanVars
  /\ UNCHANGED parseVars
  /\ UNCHANGED optVars
  /\ UNCHANGED irVars
  /\ UNCHANGED runVars

\* ExecPropagate with the Loop arm dropping the Err and going on with the
\* node after the Loop
ExecPropagate_resume ==
  /\ pc = "exec"
  /\ fault.tag /= "none"
  /\ Len(estack) > 1
  /\ fault' = NoFault
  /\ estack' = Advance(SubSeq(estack, 1, Len(estack) - 1))
  /\ UNCHANGED <<pc, ast, mem_size, ptr, mem, result, out, nin, iters>>
  /\ UNCHANGED scanVars
  /\ UNCHANGED parseVars
  /\ UNCHANGED optVars
  /\ UNCHANGED irVars
  /\ UNCHANGED runVars

\* a call for a loop body returns Err(e) and the Loop arm returns it
ExecPropagate ==
  /\ pc = "exec"
  /\ fault.tag /= "none"
  /\ Len(estack) > 1
  /\ estack' = SubSeq(estack, 1, Len(estack) - 1)
  /\ UNCHANGED <<pc, ast, mem_size, ptr, mem, fault, result, out, nin, iters>>
  /\ UNCHANGED scanVars
  /\ UNCHANGED parseVars
  /\ UNCHANGED optVars
  /\ UNCHANGED irVars
  /\ UNCHANGED runVars

\* Program::exec returns the Err of the outermost exec_nodes
ExecErr ==
  /\ pc = "exec"
  /\ fault.tag /= "none"
  /\ Len(estack) = 1
  /\ result' = fault
  /\ pc' = "done"
  /\ UNCHANGED <<ast, mem_size, ptr, mem, estack, fault, out, nin, iters>>
  /\ UNCHANGED scanVars
  /\ UNCHANGED parseVars
  /\ UNCHANGED optVars
  /\ UNCHANGED irVars
  /\ UNCHANGED runVars

\* the outermost for loop ends: Ok(())
ExecOk ==
  /\ pc = "exec"
  /\ fault.tag = "none"
  /\ ExecTop.i > Len(ExecTop.nodes)
  /\ Len(estack) = 1
  /\ result' = ResultOk
  /\ pc' = "done"
  /\ UNCHANGED <<ast, mem_size, ptr, mem, estack, fault, out, nin, iters>>
  /\ UNCHANGED scanVars
  /\ UNCHANGED parseVars
  /\ UNCHANGED optVars
  /\ UNCHANGED irVars
  /\ UNCHANGED runVars

\* ---------------------------------------------------------------- emitter
\* gstack[1] is the call of gen_ir_nodes made by gen_ir; every further frame
\* is the call made by a Loop arm for its body, header and end being the
\* labels that arm holds for the text it pushes when the call returns.
GenFrame(nodes, i, header, end) ==
  [nodes |-> nodes, i |-> i, header |-> header, end |-> end]

\* IrState::ident: the counter after the call and the String returned
ident(n) == [n |-> n + 1, name |-> "%i" \o ToString(n + 1)]

\* IrState::label without the increment of the counter
label_stale(n) == [n |-> n, name |-> "l" \o ToString(n)]

\* IrState::label: the counter after the call and the String returned
label(n) == [n |-> n + 1, name |-> "l" \o ToString(n + 1)]

\* One line of the text: op names the instruction, def is the name the line
\* defines ("" if none), uses the names it reads, targets the labels it
\* branches to (written %l.. in the text), value the number it carries.
Line(op, def, uses, targets, value) ==
  [op |-> op, def |-> def, uses |-> uses, targets |-> targets, value |-> value]

\* the prelude of gen_ir
Prelude(size) ==
  <<Line("global_mem", "@mem", <<>>, <<>>, size),
    Line("define_start", "@_start", <<>>, <<>>, 0),
    Line("alloca_i64", "%ptr", <<>>, <<>>, 0),
    Line("store_ptr", "", <<"%ptr">>, <<>>, size \div 2)>>

\* the epilogue of gen_ir
Epilogue ==
  <<Line("syscall_exit", "", <<>>, <<>>, 60),
    Line("ret_void", "", <<>>, <<>>, 0),
    Line("end_define", "", <<>>, <<>>, 0)>>

\* the text of the IncPtr arm
IncPtrLines(i0, i1, v) ==
  <<Line("load_ptr", i0, <<"%ptr">>, <<>>, 0),
    Line("add_i64", i1, <<i0>>, <<>>, v),
    Line("store_ptr", "", <<i1, "%ptr">>, <<>>, 0)>>

\* the text of the DecPtr arm
DecPtrLines(i0, i1, v) ==
  <<Line("load_ptr", i0, <<"%ptr">>, <<>>, 0),
    Line("sub_i64", i1, <<i0>>, <<>>, v),
    Line("store_ptr", "", <<i1, "%ptr">>, <<>>, 0)>>

\* the text of the Increment arm
IncrementLines(i0, i1, i2, i3, v, size) ==
  <<Line("load_ptr", i0, <<"%ptr">>, <<>>, 0),
    Line("getelementptr", i1, <<"@mem", i0>>, <<>>, size),
    Line("load_cell", i2, <<i1>>, <<>>, 0),
    Line("add_i8", i3, <<i2>>, <<>>, v),
    Line("store_cell", "", <<i3, i1>>, <<>>, 0)>>

\* the text of the Decrement arm
DecrementLines(i0, i1, i2, i3, v, size) ==
  <<Line("load_ptr", i0, <<"%ptr">>, <<>>, 0),
    Line("getelementptr", i1, <<"@mem", i0>>, <<>>, size),
    Line("load_cell", i2, <<i1>>, <<>>, 0),
    Line("sub_i8", i3, <<i2>>, <<>>, v),
    Line("store_cell", "", <<i3, i1>>, <<>>, 0)>>

\* the text of the Output arm
OutputLines(i0, i1, size) ==
  <<Line("load_ptr", i0, <<"%ptr">>, <<>>, 0),
    Line("getelementptr", i1, <<"@mem", i0>>, <<>>, size),
    Line("syscall_write", "", <<i1>>, <<>>, 1)>>

\* the text of the Input arm
InputLines(i0, i1, size) ==
  <<Line("load_ptr", i0, <<"%ptr">>, <<>>, 0),
    Line("getelementptr", i1, <<"@mem", i0>>, <<>>, size),
    Line("syscall_read", "", <<i1>>, <<>>, 0)>>

\* LoopHeadLines with the two labels of the conditional branch exchanged
LoopHeadLines_swapped(i0, i1, i2, i3, header, body, end, size) ==
  <<Line("br", "", <<>>, <<header>>, 0),
    Line("label", header, <<>>, <<>>, 0),
    Line("load_ptr", i0, <<"%ptr">>, <<>>, 0),
    Line("getelementptr", i1, <<"@mem", i0>>, <<>>, size),
    Line("load_cell", i2, <<i1>>, <<>>, 0),
    Line("icmp_eq_zero", i3, <<i2>>, <<>>, 0),
    Line("br_i1", "", <<i3>>, <<body, end>>, 0),
    Line("label", body, <<>>, <<>>, 0)>>

\* the text the Loop arm pushes before the call for the body; the first
\* target of br_i1 is taken when the comparison is true
LoopHeadLines(i0, i1, i2, i3, header, body, end, size) ==
  <<Line("br", "", <<>>, <<header>>, 0),
    Line("label", header, <<>>, <<>>, 0),
    Line("load_ptr", i0, <<"%ptr">>, <<>>, 0),
    Line("getelementptr", i1, <<"@mem", i0>>, <<>>, size),
    Line("load_cell", i2, <<i1>>, <<>>, 0),
    Line("icmp_eq_zero", i3, <<i2>>, <<>>, 0),
    Line("br_i1", "", <<i3>>, <<end, body>>, 0),
    Line("label", body, <<>>, <<>>, 0)>>

\* the text the Loop arm pushes after the call for the body
LoopTailLines(header, end) ==
  <<Line("br", "", <<>>, <<header>>, 0),
    Line("label", end, <<>>, <<>>, 0)>>

GenTop == gstack[Len(gstack)]

\* the node the for loop of the running gen_ir_nodes call is at
Emitting ==
  /\ pc = "gen_ir"
  /\ GenTop.i <= Len(GenTop.nodes)

GenCur == GenTop.nodes[GenTop.i]

\* ir.push_str(&r) in a leaf arm, n being the counter after the arm's mints
GenPush(lines, n) ==
  /\ ir' = ir \o lines
  /\ next_label' = n
  /\ gstack' = Advance(gstack)
  /\ UNCHANGED <<pc, ast>>
  /\ UNCHANGED scanVars
  /\ UNCHANGED parseVars
  /\ UNCHANGED optVars
  /\ UNCHANGED execVars
  /\ UNCHANGED runVars

\* Program::gen_ir up to the call of gen_ir_nodes; the Program was made with
\* Program::new(x, mem_size), here with any size up to MaxMemSize
GenStart ==
  /\ pc = "optimized"
  /\ passes = 1
  /\ \E size \in 0..MaxMemSize :
       /\ mem_size' = size
       /\ ir' = Prelude(size)
  /\ next_label' = 0
  /\ gstack' = <<GenFrame(ast, 1, "", "")>>
  /\ pc' = "gen_ir"
  /\ UNCHANGED <<ast, ptr, mem, estack, fault, result, out, nin, iters>>
  /\ UNCHANGED scanVars
  /\ UNCHANGED parseVars
  /\ UNCHANGED optVars
  /\ UNCHANGED runVars

GenIncPtr ==
  /\ Emitting
  /\ GenCur.kind = "IncPtr"
  /\ LET i0 == ident(next_label)
         i1 == ident(i0.n)
     IN GenPush(IncPtrLines(i0.name, i1.name, GenCur.v), i1.n)

GenDecPtr ==
  /\ Emitting
  /\ GenCur.kind = "DecPtr"
  /\ LET i0 == ident(next_label)
         i1 == ident(i0.n)
     IN GenPush(DecPtrLines(i0.name, i1.name, GenCur.v), i1.n)

GenIncrement ==
  /\ Emitting
  /\ GenCur.kind = "Increment"
  /\ LET i0 == ident(next_label)
         i1 == ident(i0.n)
         i2 == ident(i1.n)
         i3 == ident(i2.n)
     IN GenPush(IncrementLines(i0.name, i1.name, i2.name, i3.name, GenCur.v, mem_size), i3.n)

GenDecrement ==
  /\ Emitting
  /\ GenCur.kind = "Decrement"
  /\ LET i0 == ident(next_label)
         i1 == ident(i0.n)
         i2 == ident(i1.n)
         i3 == ident(i2.n)
     IN GenPush(DecrementLines(i0.name, i1.name, i2.name, i3.name, GenCur.v, mem_size), i3.n)

GenOutput ==
  /\ Emitting
  /\ GenCur.kind = "Output"
  /\ LET i0 == ident(next_label)
         i1 == ident(i0.n)
     IN GenPush(OutputLines(i0.name, i1.name, mem_size), i1.n)

GenInput ==
  /\ Emitting
  /\ GenCur.kind = "Input"
  /\ LET i0 == ident(next_label)
         i1 == ident(i0.n)
     IN GenPush(InputLines(i0.name, i1.name, mem_size), i1.n)

\* the Loop arm up to the call of gen_ir_nodes for the body
GenLoop ==
  /\ Emitting
  /\ GenCur.kind = "Loop"
  /\ LET i0 == ident(next_label)
         i1 == ident(i0.n)
         i2 == ident(i1.n)
         i3 == ident(i2.n)
         header == label(i3.n)
         body == label(header.n)
         end == label(body.n)
     IN /\ ir' = ir \o LoopHeadLines(i0.name, i1.name, i2.name, i3.name,
                                     header.name, body.name, end.name, mem_size)
        /\ next_label' = end.n
        /\ gstack' = Append(gstack, GenFrame(GenCur.nodes, 1, header.name, end.name))
  /\ UNCHANGED <<pc, ast>>
  /\ UNCHANGED scanVars
  /\ UNCHANGED parseVars
  /\ UNCHANGED optVars
  /\ UNCHANGED execVars
  /\ UNCHANGED runVars

\* the call for a loop body returns and the Loop arm pushes its second text
GenLoopEnd ==
  /\ pc = "gen_ir"
  /\ GenTop.i > Len(GenTop.nodes)
  /\ Len(gstack) > 1
  /\ ir' = ir \o LoopTailLines(GenTop.header, GenTop.end)
  /\ gstack' = Advance(SubSeq(gstack, 1, Len(gstack) - 1))
  /\ UNCHANGED <<pc, ast, next_label>>
  /\ UNCHANGED scanVars
  /\ UNCHANGED parseVars
  /\ UNCHANGED optVars
  /\ UNCHANGED execVars
  /\ UNCHANGED runVars

\* the outermost gen_ir_nodes returns: the epilogue is pushed and gen_ir
\* returns ir
GenEnd ==
  /\ pc = "gen_ir"
  /\ GenTop.i > Len(GenTop.nodes)
  /\ Len(gstack) = 1
  /\ ir' = ir \o Epilogue
  /\ pc' = "emitted"
  /\ UNCHANGED <<ast, next_label, gstack>>
  /\ UNCHANGED scanVars
  /\ UNCHANGED parseVars
  /\ UNCHANGED optVars
  /\ UNCHANGED execVars
  /\ UNCHANGED runVars

\* Program::new(ast, mem_size) and Program::exec on the tree as Ast::parse
\* returned it, before any call of optimize
ExecStartUnoptimized ==
  /\ pc = "parsed"
  /\ first.tag = "none"
  /\ \E size \in 0..MaxMemSize :
       /\ mem_size' = size
       /\ ptr' = size \div 2
       /\ mem' = [c \in 0..(size - 1) |-> 0]
  /\ estack' = <<ExecFrame(ast, 1)>>
  /\ pc' = "exec"
  /\ UNCHANGED <<ast, fault, result, out, nin, iters>>
  /\ UNCHANGED scanVars
  /\ UNCHANGED parseVars
  /\ UNCHANGED optVars
  /\ UNCHANGED irVars
  /\ UNCHANGED runVars

\* what a finished call of Program::exec has done
Observed ==
  [tag |-> "seen", mem_size |-> mem_size, out |-> out, nin |-> nin, mem |-> mem, ptr |-> ptr,
   result |-> result]

\* the run of the unoptimized tree is over: what it did is kept, and the
\* same source goes on to optimize with standard input read from its start
ExecAgain ==
  /\ pc = "done"
  /\ passes = 0
  /\ first.tag = "none"
  /\ first' = Observed
  /\ mem_size' = 0
  /\ ptr' = 0
  /\ mem' = <<>>
  /\ estack' = <<>>
  /\ fault' = NoFault
  /\ result' = NoFault
  /\ out' = <<>>
  /\ nin' = 0
  /\ iters' = 0
  /\ pc' = "parsed"
  /\ UNCHANGED <<ast, stdin>>
  /\ UNCHANGED scanVars
  /\ UNCHANGED parseVars
  /\ UNCHANGED optVars
  /\ UNCHANGED irVars

\* Program::new(x, mem_size) and Program::exec on the optimized tree, with
\* the memory size the unoptimized tree was run with
ExecStartSame ==
  /\ pc = "optimized"
  /\ passes = 1
  /\ first.tag = "seen"
  /\ mem_size' = first.mem_size
  /\ ptr' = first.mem_size \div 2
  /\ mem' = [c \in 0..(first.mem_size - 1) |-> 0]
  /\ estack' = <<ExecFrame(ast, 1)>>
  /\ pc' = "exec"
  /\ UNCHANGED <<ast, fault, result, out, nin, iters>>
  /\ UNCHANGED scanVars
  /\ UNCHANGED parseVars
  /\ UNCHANGED optVars
  /\ UNCHANGED irVars
  /\ UNCHANGED runVars

\* ----------------------------------------------------------------- inputs
Alphabet == {">", "<", "+", "-", ".", ",", "[", "]", "\n", "x"}

RECURSIVE SeqsUpTo(_, _)
SeqsUpTo(S, n) ==
  IF n = 0 THEN {<<>>}
  ELSE LET shorter == SeqsUpTo(S, n - 1)
       IN shorter \cup {Append(s, x) : s \in {t \in shorter : Len(t) = n - 1}, x \in S}

ShortSources == SeqsUpTo(Alphabet, MaxSrcLen)

DeltaBytes == {">", "<", "+", "-"}

RunSources == {[i \in 1..n |-> c] : n \in 1..MaxRun, c \in DeltaBytes}

InitWith(sources) ==
  /\ pc = "scan"
  /\ source \in sources
  /\ sc = [i |-> 1, line |-> 1, column |-> 1]
  /\ symbols = <<>>
  /\ pstack = <<Frame(<<>>, NoDebug)>>
  /\ perr = NoError
  /\ ast = <<>>
  /\ ostack = <<>>
  /\ run = NoRun
  /\ passes = 0
  /\ prev_ast = <<>>
  /\ mem_size = 0
  /\ ptr = 0
  /\ mem = <<>>
  /\ estack = <<>>
  /\ fault = NoFault
  /\ result = NoFault
  /\ out = <<>>
  /\ nin = 0
  /\ iters = 0
  /\ next_label = 0
  /\ ir = <<>>
  /\ gstack = <<>>
  /\ stdin = <<>>
  /\ first = NoFirst

SymbolBytes == {">", "<", "+", "-", ".", ",", "[", "]"}

\* a cell made nonzero, then a loop around a short body
LoopSources ==
  {<<h, "[">> \o b \o <<"]">> : h \in {"+", ","}, b \in SeqsUpTo(SymbolBytes, MaxBody)}

\* a cell made nonzero, then loops one in another around a step to the left
\* and one more node
DeepSources ==
  {<<"+">> \o [i \in 1..d |-> "["] \o <<"<">> \o x \o [i \in 1..d |-> "]"] :
     d \in 1..MaxDeep, x \in {<<".">>, <<",">>, <<"+">>, <<"[", "]">>}}

Init == InitWith(ShortSources \cup LoopSources \cup DeepSources)

NextScan == ScanByte \/ ScanEnd

NextParse ==
  \/ ParseOpenBlock \/ ParseCloseBlock \/ ParseStrayClose
  \/ ParseLeaf \/ ParseEofInLoop \/ ParseEof

NextOptimize ==
  \/ OptStart \/ OptAgain \/ OptLoop \/ OptLoopDone \/ OptDelta
  \/ OptCoalesce \/ OptPushDelta \/ OptInputOutput \/ OptEnd

NextExec ==
  \/ ExecStart \/ ExecIncPtr \/ ExecDecPtr \/ ExecIncrement \/ ExecDecrement
  \/ ExecOutput \/ ExecInput \/ ExecLoop \/ ExecLoopIter
  \/ ExecPropagate \/ ExecErr \/ ExecOk

Next == NextScan \/ NextParse \/ NextOptimize \/ NextExec

Spec == Init /\ [][Next]_vars

\* the scanner, the parser and the optimizer on the short sources and on
\* runs of one delta symbol
InitRun == InitWith(ShortSources \cup RunSources)

NextRun == NextScan \/ NextParse \/ NextOptimize

SpecRun == InitRun /\ [][NextRun]_vars

\* `[-]` on a cell holding v, for every v in 1..255: k `+` give k and k `-`
\* give 256 - k; for the short runs also with the left neighbour cell set
ClearSources ==
  LET fill == {[i \in 1..k |-> c] : k \in 1..(U8 \div 2), c \in {"+", "-"}}
      short == {f \in fill : Len(f) <= MaxSrcLen}
  IN {f \o <<"[", "-", "]">> : f \in fill}
       \cup {<<"<", "+", ">">> \o f \o <<"[", "-", "]">> : f \in short}

InitClear == InitWith(ClearSources)

NextClear ==
  \/ ScanByte \/ ScanEnd
  \/ ParseOpenBlock \/ ParseCloseBlock \/ ParseLeaf \/ ParseEof
  \/ OptStart \/ OptLoop \/ OptLoopDone \/ OptDelta \/ OptCoalesce \/ OptPushDelta \/ OptEnd
  \/ ExecStart \/ ExecIncPtr \/ ExecDecPtr \/ ExecIncrement \/ ExecDecrement
  \/ ExecLoop \/ ExecLoopIter \/ ExecErr \/ ExecOk

\* the pipeline is one thread that runs until it returns
SpecClear == InitClear /\ [][NextClear]_vars /\ WF_vars(NextClear)

\* loops nested and side by side, with and without a cell delta in them
NestBytes == {"[", "]", "+"}

NestSources == SeqsUpTo(NestBytes, MaxNest)

\* the copy loop `[->+<]`, alone and after a loop
CopyLoop == <<"[", "-", ">", "+", "<", "]">>

CopySources == {CopyLoop, <<"[", "]">> \o CopyLoop}

InitIr == InitWith(ShortSources \cup NestSources \cup CopySources)

NextGen ==
  \/ GenStart \/ GenIncPtr \/ GenDecPtr \/ GenIncrement \/ GenDecrement
  \/ GenOutput \/ GenInput \/ GenLoop \/ GenLoopEnd \/ GenEnd

NextIr ==
  \/ NextScan \/ NextParse
  \/ OptStart \/ OptLoop \/ OptLoopDone \/ OptDelta
  \/ OptCoalesce \/ OptPushDelta \/ OptInputOutput \/ OptEnd
  \/ NextGen

\* the scanner, the parser, the optimizer and the emitter
SpecIr == InitIr /\ [][NextIr]_vars

\* runs of `+` and of `-` around the width of a cell, then the cell printed
WrapSources ==
  {[i \in 1..n |-> c] \o <<".">> : n \in (U8 - 1)..(U8 + 1), c \in {"+", "-"}}

InitEquiv == InitWith(ShortSources \cup LoopSources \cup DeepSources \cup WrapSources)

NextEquiv ==
  \/ NextScan \/ NextParse
  \/ ExecStartUnoptimized \/ ExecAgain
  \/ OptStart \/ OptLoop \/ OptLoopDone \/ OptDelta
  \/ OptCoalesce \/ OptPushDelta \/ OptInputOutput \/ OptEnd
  \/ ExecStartSame
  \/ ExecIncPtr \/ ExecDecPtr \/ ExecIncrement \/ ExecDecrement
  \/ ExecOutput \/ ExecInput \/ ExecLoop \/ ExecLoopIter
  \/ ExecPropagate \/ ExecErr \/ ExecOk

\* one source interpreted as parsed, then optimized and interpreted again on
\* the same standard input with the same memory size
SpecEquiv == InitEquiv /\ [][NextEquiv]_vars

\* ------------------------------------------------- what the claims speak of
\* The symbols of a source, described without the scanner's loop: the k-th
\* symbol byte, at the line and column a reader of the text counts.
SymbolIdx(src) ==
  SelectSeq([i \in 1..Len(src) |-> i], LAMBDA i : SymbolOf(src[i]) /= "none")

LineOf(src, i) == 1 + Cardinality({j \in 1..(i - 1) : src[j] = "\n"})

ColumnOf(src, i) ==
  LET nls == {j \in 1..(i - 1) : src[j] = "\n"}
  IN IF nls = {} THEN i ELSE i - (CHOOSE j \in nls : \A k \in nls : k <= j)

Syms(src) ==
  LET idx == SymbolIdx(src)
  IN [k \in 1..Len(idx) |->
        Symbol(SymbolOf(src[idx[k]]), DebugInfo(LineOf(src, idx[k]), ColumnOf(src, idx[k])))]

\* the kinds of the symbols alone
Kinds(src) ==
  LET idx == SymbolIdx(src)
  IN [k \in 1..Len(idx) |-> [kind |-> SymbolOf(src[idx[k]])]]

\* bracket depth after the first i symbols
Depth(s, i) ==
  Cardinality({j \in 1..i : s[j].kind = "OpenBlock"})
    - Cardinality({j \in 1..i : s[j].kind = "CloseBlock"})

NoStray(s) == \A i \in 1..Len(s) : Depth(s, i) >= 0

Balanced(s) == NoStray(s) /\ Depth(s, Len(s)) = 0

OpenAtEof(s) == NoStray(s) /\ Depth(s, Len(s)) > 0

Remove(s, i) == SubSeq(s, 1, i - 1) \o SubSeq(s, i + 1, Len(s))

ParseDone == pc \notin {"scan", "parse"}

\* ----------------------------------------------------------------- claims
PtrKinds == {"IncPtr", "DecPtr"}

\* C1 as stated: whatever the kind of the node, executing it with
\* cursor >= size raises OutOfBounds with that node's DebugInfo.
C1_AnyNodeFaults ==
  [][(Running /\ is_oob(ptr, mem_size)) => fault' = OutOfBounds(Cur.d)]_vars

\* C1 amended: executing an Increment, Decrement, Output, Input or Loop with
\* cursor >= size raises OutOfBounds with that node's DebugInfo, the fault is
\* handed up unchanged and is what exec returns; an IncPtr or DecPtr executed
\* with cursor >= size raises nothing.
C1_TouchingNodeFaults ==
  /\ [][(Running /\ is_oob(ptr, mem_size) /\ Cur.kind \notin PtrKinds)
          => fault' = OutOfBounds(Cur.d)]_vars
  /\ [][(Running /\ is_oob(ptr, mem_size) /\ Cur.kind \in PtrKinds)
          => fault' = NoFault]_vars
  /\ [][fault.tag /= "none" => fault' = fault /\ (pc' = "done" => result' = fault)]_vars

C1_Witness ==
  /\ pc = "done"
  /\ result.tag = "OutOfBounds"
  /\ mem_size > 0
  /\ \E i \in DOMAIN ast : ast[i].kind \in {"Output", "Loop"} /\ ast[i].d = result.d

Max(S) == CHOOSE x \in S : \A y \in S : y <= x

\* the open brackets that no later close matches
UnmatchedOpens(s) ==
  {i \in 1..Len(s) : s[i].kind = "OpenBlock" /\ \A j \in i..Len(s) : Depth(s, j) >= Depth(s, i)}

\* the open brackets whose removal leaves a balanced sequence
ExtraOpens(s) ==
  {i \in 1..Len(s) : s[i].kind = "OpenBlock" /\ Balanced(Remove(s, i))}

\* C2 as stated: at end of input inside a loop the parse fails with
\* UnmatchedLoop, and for a balanced source with one extra `[` inserted
\* anywhere the position reported is the inserted bracket's.
C2_ExtraOpenAnywhere ==
  LET s == Syms(source)
  IN (ParseDone /\ OpenAtEof(s)) =>
       /\ pc = "parse_error"
       /\ perr.tag = "UnmatchedLoop"
       /\ \A i \in ExtraOpens(s) : perr.d = s[i].d

\* C2 amended: at end of input inside a loop the parse fails with one
\* UnmatchedLoop whose position is that of the last `[` that has no matching
\* `]`; for a balanced source with one extra `[` inserted at nesting depth 0
\* that is the inserted bracket.
C2_LastUnmatchedOpen ==
  LET s == Syms(source)
  IN (ParseDone /\ OpenAtEof(s)) =>
       /\ pc = "parse_error"
       /\ perr = UnmatchedLoop(s[Max(UnmatchedOpens(s))].d)
       /\ \A i \in ExtraOpens(s) : Depth(s, i - 1) = 0 => perr.d = s[i].d

C2_Witness ==
  LET s == Syms(source)
  IN /\ pc = "parse_error"
     /\ OpenAtEof(s)
     /\ Cardinality(UnmatchedOpens(s)) = 2
     /\ perr.d = DebugInfo(2, 1)

FirstStray(s) == CHOOSE i \in 1..Len(s) : Depth(s, i) < 0 /\ \A j \in 1..(i - 1) : Depth(s, j) >= 0

\* C3: a `]` met when no `[` is open makes the parse fail with UnmatchedLoop
\* at that `]`, the symbols after it stay in the queue, and a `]` met inside
\* an open loop raises no error.
C3_StrayClose ==
  /\ [](LET s == Syms(source)
        IN (ParseDone /\ ~NoStray(s)) =>
             /\ pc = "parse_error"
             /\ perr = UnmatchedLoop(s[FirstStray(s)].d)
             /\ symbols = SubSeq(s, FirstStray(s) + 1, Len(s)))
  /\ [][(pc = "parse" /\ symbols /= <<>> /\ Head(symbols).kind = "CloseBlock" /\ Len(pstack) > 1)
          => (pc' = "parse" /\ perr' = NoError)]_vars

C3_Witness ==
  LET s == Syms(source)
  IN /\ pc = "parse_error"
     /\ Len(s) = 5
     /\ ~NoStray(s)
     /\ FirstStray(s) = 4
     /\ s[3].kind = "CloseBlock"
     /\ symbols = <<s[5]>>

\* the deepest bracket nesting of a symbol sequence
MaxDepth(s) == Max({Depth(s, i) : i \in 0..Len(s)})

RECURSIVE LoopDepth(_)
\* the deepest nesting of Loop nodes in a tree
LoopDepth(nodes) ==
  Max({0} \cup {1 + LoopDepth(nodes[i].nodes) : i \in {j \in DOMAIN nodes : nodes[j].kind = "Loop"}})

\* C4: for a bracket-balanced symbol sequence Ast::parse returns Ok and the
\* deepest nesting of Loop nodes in the tree is the deepest bracket nesting
\* of the source.
C4_BalancedParses ==
  LET s == Syms(source)
  IN (ParseDone /\ Balanced(s)) =>
       /\ pc /= "parse_error"
       /\ perr = NoError
       /\ pc = "parsed" => LoopDepth(ast) = MaxDepth(s)

C4_Witness ==
  /\ pc = "parsed"
  /\ Balanced(Syms(source))
  /\ LoopDepth(ast) = 2
  /\ Len(ast) = 2

\* C5: optimizing a tree that optimize produced gives back the same tree.
C5_Idempotent ==
  (pc = "optimized" /\ passes >= 2) => ast = prev_ast

C5_Witness ==
  /\ pc = "optimized"
  /\ passes = 2
  /\ \E i \in DOMAIN ast :
       /\ ast[i].kind = "Loop"
       /\ \E j \in DOMAIN ast[i].nodes : ast[i].nodes[j].v = 2

\* the symbols are N >= 1 symbols of one delta kind
IsDeltaRun(s) ==
  /\ Len(s) >= 1
  /\ s[1].kind \in DeltaKinds
  /\ \A i \in 1..Len(s) : s[i].kind = s[1].kind

\* the modulus of a delta node's count
CountMod(kind) == IF kind \in PtrKinds THEN UsizeMod ELSE U8

\* C6: a run of N identical delta symbols, N in 1..MaxRun, optimizes to one
\* node of that kind, with count N mod 256 for Increment and Decrement and N
\* for IncPtr and DecPtr, at the position of the first symbol of the run.
C6_RunCount ==
  LET s == Syms(source)
      N == Len(Kinds(source))
  IN (pc = "optimized" /\ IsDeltaRun(Kinds(source))) =>
       ast = <<Leaf(s[1].kind,
                    IF s[1].kind \in PtrKinds THEN N ELSE N % 256,
                    s[1].d)>>

C6_Witness ==
  /\ pc = "optimized"
  /\ passes = 1
  /\ Len(source) = 300
  /\ ast = <<Leaf("Decrement", 44, DebugInfo(1, 1))>>

RECURSIVE AllNodes(_)
\* every node of a tree, at any depth
AllNodes(nodes) ==
  {nodes[i] : i \in DOMAIN nodes} \cup UNION {AllNodes(nodes[i].nodes) : i \in DOMAIN nodes}

\* the length of the run of same-kind symbols that begins at symbol k
RunLenAt(s, k) ==
  LET stops == {m \in k..Len(s) : s[m].kind /= s[k].kind}
  IN IF stops = {} THEN Len(s) - k + 1
     ELSE (CHOOSE m \in stops : \A x \in stops : m <= x) - k

\* the index of the symbol at position d
SymbolAt(s, d) == CHOOSE k \in 1..Len(s) : s[k].d = d

\* C7 as stated: no delta node of an optimized tree has count zero.
C7_NeverZero ==
  pc = "optimized" => \A n \in AllNodes(ast) : n.kind \in DeltaKinds => n.v /= 0

\* C7 amended: the count of a delta node of an optimized tree is the length
\* of the run it stands for reduced modulo the width of the count, so it is
\* zero exactly when that length is a multiple of the modulus: 256 for
\* Increment and Decrement; a pointer run shorter than the usize modulus
\* never gives zero.
C7_CountIsRunLength ==
  LET s == Syms(source)
  IN pc = "optimized" =>
       \A n \in AllNodes(ast) :
         n.kind \in DeltaKinds =>
           LET len == RunLenAt(Kinds(source), SymbolAt(s, n.d))
           IN /\ s[SymbolAt(s, n.d)].kind = n.kind
              /\ n.v = len % CountMod(n.kind)
              /\ (n.v = 0) <=> (len % CountMod(n.kind) = 0)
              /\ (n.kind \in PtrKinds /\ len < UsizeMod) => n.v /= 0

C7_Witness ==
  /\ pc = "optimized"
  /\ Len(source) = 256
  /\ ast = <<Leaf("Increment", 0, DebugInfo(1, 1))>>

\* C8: an IncPtr or DecPtr only moves the cursor, whatever cursor results; a
\* DecPtr larger than the cursor wraps to the top of the index range; a fault
\* is raised only by a node other than IncPtr and DecPtr, with the cursor at
\* or beyond size; a program whose cursor is back in range at each such node
\* returns Ok.
C8_LazyBoundsCheck ==
  /\ [][(Running /\ Cur.kind \in PtrKinds) =>
          /\ fault' = NoFault
          /\ pc' = "exec"
          /\ estack' = Advance(estack)
          /\ mem' = mem]_vars
  /\ [][(Running /\ Cur.kind = "DecPtr" /\ Cur.v > ptr) =>
          /\ ptr' = UsizeMod - (Cur.v - ptr)
          /\ is_oob(ptr', mem_size)]_vars
  /\ [][(fault.tag = "none" /\ fault'.tag /= "none") =>
          /\ is_oob(ptr, mem_size)
          /\ ptr' = ptr
          /\ fault'.tag = "OutOfBounds"
          /\ \E n \in AllNodes(ast) : n.kind \notin PtrKinds /\ n.d = fault'.d]_vars
  /\ [][(pc = "exec" /\ pc' = "done" /\ fault.tag = "none") => result' = ResultOk]_vars

C8_Witness ==
  /\ pc = "done"
  /\ result = ResultOk
  /\ mem_size = 1
  /\ Len(ast) = 3
  /\ ast[1].kind = "DecPtr"
  /\ ast[2].kind = "IncPtr"
  /\ ast[3].kind = "Increment"
  /\ mem[0] = 1

\* C9: an Input executed with cursor >= size takes one byte from standard
\* input, stores nothing and raises OutOfBounds at the Input's position; an
\* Output executed with cursor >= size raises OutOfBounds and writes nothing.
C9_InputReadsFirst ==
  /\ [][(Running /\ Cur.kind = "Input" /\ is_oob(ptr, mem_size)) =>
          /\ nin' = nin + 1
          /\ mem' = mem
          /\ fault' = OutOfBounds(Cur.d)]_vars
  /\ [][(Running /\ Cur.kind = "Output" /\ is_oob(ptr, mem_size)) =>
          /\ out' = out
          /\ nin' = nin
          /\ mem' = mem
          /\ fault' = OutOfBounds(Cur.d)]_vars

C9_Witness ==
  /\ pc = "done"
  /\ result.tag = "OutOfBounds"
  /\ nin = 1
  /\ mem_size = 2
  /\ Len(ast) = 2
  /\ ast[2].kind = "Input"
  /\ ast[2].d = result.d

\* the value v that a clear-loop source puts in the centre cell
ClearV(src) ==
  LET plus == Cardinality({i \in DOMAIN src : src[i] = "+"}) - (IF src[1] = "<" THEN 1 ELSE 0)
      minus == Cardinality({i \in DOMAIN src : src[i] = "-"}) - 1
  IN (plus - minus) % U8

\* memory as the source leaves it before the loop, with c in the centre cell
ClearMem(src, size, c) ==
  [k \in 0..(size - 1) |->
     IF k = size \div 2 THEN c
     ELSE IF src[1] = "<" /\ k = (size \div 2) - 1 THEN 1 ELSE 0]

\* the interpreter is about to execute the Loop of a clear-loop source
AtClearLoop ==
  /\ Running
  /\ Len(estack) = 1
  /\ Cur.kind = "Loop"
  /\ ~is_oob(ptr, mem_size)

\* C10: `[-]` entered with the cursor at size/2, size >= 1, and v in 1..255 in
\* that cell ends with exec returning Ok after exactly v executions of the
\* body, the cell at 0, every other cell and the cursor as they were.
C10_ClearLoop ==
  /\ [](AtClearLoop =>
          /\ mem_size >= 1
          /\ ptr = mem_size \div 2
          /\ iters = 0
          /\ mem = ClearMem(source, mem_size, ClearV(source)))
  /\ []((pc = "done" /\ result = ResultOk) =>
          /\ iters = ClearV(source)
          /\ ptr = mem_size \div 2
          /\ mem = ClearMem(source, mem_size, 0))
  /\ AtClearLoop ~> (pc = "done" /\ result = ResultOk)

C10_Witness ==
  /\ pc = "done"
  /\ result = ResultOk
  /\ iters = 255
  /\ mem_size = 2
  /\ mem = (0 :> 1) @@ (1 :> 0)

\* the lines of the text that define a name minted by IrState
MintedAt(t) ==
  {k \in DOMAIN t : t[k].def /= "" /\ t[k].op \notin {"global_mem", "define_start", "alloca_i64"}}

\* the names minted so far: those the text defines and those it branches
\* to (the end label of a Loop is defined only after the Loop's body)
Minted(t) ==
  {t[k].def : k \in MintedAt(t)}
    \cup UNION {{t[k].targets[j] : j \in DOMAIN t[k].targets} : k \in DOMAIN t}

\* the lines that define a label
LabelsAt(t) == {k \in DOMAIN t : t[k].op = "label"}

\* the conditional branches, one per Loop
CondBrAt(t) == {k \in DOMAIN t : t[k].op = "br_i1"}

\* the labels of the Loop whose conditional branch is line k: the label
\* defined four lines above the comparison, and the two targets
LoopLabels(t, k) == {t[k - 5].def, t[k].targets[1], t[k].targets[2]}

Loops(nodes) == {n \in AllNodes(nodes) : n.kind = "Loop"}

\* C11: within one gen_ir call the counter never decreases and grows by one
\* with every name minted; the identifiers and labels in the text are pairwise
\* distinct, as names and as numbers; each Loop has three pairwise distinct
\* labels, shared with no other Loop, and the text defines no other label.
C11_FreshNames ==
  /\ [][pc = "gen_ir" =>
          /\ next_label' >= next_label
          /\ Cardinality(Minted(ir')) - Cardinality(Minted(ir)) = next_label' - next_label]_vars
  /\ [](pc \in {"gen_ir", "emitted"} =>
          /\ \A j, k \in MintedAt(ir) : j /= k => ir[j].def /= ir[k].def
          /\ Cardinality(Minted(ir)) = next_label
          /\ \A n \in 1..next_label :
               Cardinality(Minted(ir) \cap {"%i" \o ToString(n), "l" \o ToString(n)}) = 1)
  /\ [](pc = "emitted" =>
          /\ Cardinality(CondBrAt(ir)) = Cardinality(Loops(ast))
          /\ Cardinality(LabelsAt(ir)) = 3 * Cardinality(Loops(ast))
          /\ Cardinality(MintedAt(ir)) = next_label
          /\ \A k \in CondBrAt(ir) :
               /\ Cardinality(LoopLabels(ir, k)) = 3
               /\ LoopLabels(ir, k) \subseteq {ir[j].def : j \in LabelsAt(ir)}
               /\ \A j \in CondBrAt(ir) :
                    j /= k => LoopLabels(ir, j) \cap LoopLabels(ir, k) = {})

C11_Witness ==
  /\ pc = "emitted"
  /\ source = <<"[", "[", "+", "]", "]", "[", "]">>
  /\ next_label = 25
  /\ Cardinality(LabelsAt(ir)) = 9

\* a call of exec_nodes for a loop body has run through its nodes
BodyDone ==
  /\ pc = "exec"
  /\ fault.tag = "none"
  /\ Len(estack) > 1
  /\ ExecTop.i > Len(ExecTop.nodes)

\* the Loop node whose body the innermost call of exec_nodes executes
EnclosingLoop == estack[Len(estack) - 1].nodes[estack[Len(estack) - 1].i]

\* C12: a Loop met with cursor >= size raises OutOfBounds at the Loop's
\* position without running the body; with the cursor in range the cell
\* decides between body and exit; after a body execution that returns Ok the
\* cursor is tested again before the cell: cursor >= size raises OutOfBounds
\* at the Loop's position; a fault raised by a node of the body carries that
\* node's position and passes every enclosing Loop unchanged.
C12_LoopChecks ==
  /\ [][(Running /\ Cur.kind = "Loop" /\ is_oob(ptr, mem_size)) =>
          /\ fault' = OutOfBounds(Cur.d)
          /\ iters' = iters
          /\ estack' = estack]_vars
  /\ [][(Running /\ Cur.kind = "Loop" /\ ~is_oob(ptr, mem_size)) =>
          /\ fault' = NoFault
          /\ IF Cell /= 0 THEN iters' = iters + 1 /\ Len(estack') = Len(estack) + 1
             ELSE iters' = iters /\ estack' = Advance(estack)]_vars
  /\ [][(BodyDone /\ is_oob(ptr, mem_size)) =>
          /\ EnclosingLoop.kind = "Loop"
          /\ fault' = OutOfBounds(EnclosingLoop.d)
          /\ iters' = iters]_vars
  /\ [][(BodyDone /\ ~is_oob(ptr, mem_size)) =>
          /\ fault' = NoFault
          /\ IF Cell /= 0 THEN iters' = iters + 1 /\ Len(estack') = Len(estack)
             ELSE iters' = iters /\ Len(estack') = Len(estack) - 1]_vars
  /\ [][(Running /\ Len(estack) > 1 /\ fault'.tag /= "none") =>
          /\ fault' = OutOfBounds(Cur.d)
          /\ Cur.d /= EnclosingLoop.d]_vars
  /\ [][(fault.tag /= "none" /\ Len(estack) > 1) =>
          /\ fault' = fault
          /\ Len(estack') = Len(estack) - 1]_vars
  /\ [][(fault.tag /= "none" /\ Len(estack) = 1) =>
          /\ pc' = "done"
          /\ result' = fault]_vars

C12_Witness ==
  /\ pc = "done"
  /\ source = <<"+", "[", "<", "]">>
  /\ mem_size = 1
  /\ iters = 1
  /\ result = OutOfBounds(DebugInfo(1, 2))

\* C13: once a fault is raised, at whatever depth of loops, every further
\* step only returns from one call of exec_nodes: no node is executed, no
\* position of a for loop moves, nothing is printed or read, memory, cursor
\* and the fault stay as they are, and what exec returns is that fault.
C13_FirstFaultTerminal ==
  /\ [][fault.tag /= "none" =>
          /\ fault' = fault
          /\ mem' = mem
          /\ ptr' = ptr
          /\ mem_size' = mem_size
          /\ out' = out
          /\ nin' = nin
          /\ iters' = iters
          /\ IF Len(estack) > 1
             THEN pc' = "exec" /\ estack' = SubSeq(estack, 1, Len(estack) - 1)
             ELSE pc' = "done" /\ estack' = estack /\ result' = fault]_vars
  /\ [][(fault.tag = "none" /\ fault'.tag /= "none") =>
          /\ pc = "exec"
          /\ result = NoFault
          /\ result' = NoFault]_vars
  /\ []((pc = "done" /\ fault.tag /= "none") => result = fault)
  /\ []((pc = "done" /\ fault.tag = "none") => result = ResultOk)

C13_Witness ==
  /\ pc = "done"
  /\ source = <<"+", "[", "[", "[", "<", ".", "]", "]", "]">>
  /\ mem_size = 1
  /\ iters = 3
  /\ out = <<>>
  /\ result = OutOfBounds(DebugInfo(1, 6))

\* C14: a source interpreted as parsed and interpreted after optimize, on
\* the same standard input and with the same memory size, prints the same
\* characters, makes the same number of getchar calls, leaves the same
\* memory and cursor and returns the same Ok or the same OutOfBounds position.
C14_SameBehaviour ==
  (pc = "done" /\ first.tag = "seen") =>
    /\ passes = 1
    /\ first.mem_size = mem_size
    /\ first.out = out
    /\ first.nin = nin
    /\ first.mem = mem
    /\ first.ptr = ptr
    /\ first.result = result

C14_Witness ==
  /\ pc = "done"
  /\ first.tag = "seen"
  /\ Len(source) = U8 + 1
  /\ ast = <<Leaf("Increment", 0, DebugInfo(1, 1)), Leaf("Output", 0, DebugInfo(1, U8 + 1))>>
  /\ first.out = <<0>>
  /\ out = <<0>>

\* the kinds of node whose arm reads or writes state.mem
TouchKinds == {"Increment", "Decrement", "Output", "Input", "Loop"}

\* C15: from ProgramState::new on the memory has exactly size cells, indexed
\* 0..size-1; whenever an arm goes on to read or write state.mem[state.ptr]
\* (a cell update, a print, a store of the byte read, a test of the while) the
\* cursor is an index of the memory; a step that changes the memory changes
\* the cell under the cursor only, and a print prints that cell.
C15_AccessInRange ==
  /\ [](pc \in {"exec", "done"} => DOMAIN mem = 0..(mem_size - 1))
  /\ [][(Running /\ Cur.kind \in TouchKinds /\ fault' = NoFault) =>
          ptr < mem_size /\ ptr \in DOMAIN mem]_vars
  /\ [][(BodyDone /\ fault' = NoFault) => ptr < mem_size /\ ptr \in DOMAIN mem]_vars
  /\ [][(pc = "exec" /\ mem' /= mem) =>
          /\ ptr \in DOMAIN mem
          /\ DOMAIN mem' = DOMAIN mem
          /\ \A c \in DOMAIN mem \ {ptr} : mem'[c] = mem[c]]_vars
  /\ [][(pc = "exec" /\ out' /= out) =>
          /\ ptr \in DOMAIN mem
          /\ out' = Append(out, mem[ptr])]_vars
  /\ [][pc = "exec" => mem_size' = mem_size]_vars

C15_Witness ==
  /\ pc = "done"
  /\ source = <<"+", ">", ".">>
  /\ mem_size = 2
  /\ ptr = 2
  /\ mem = (0 :> 0) @@ (1 :> 1)
  /\ result = OutOfBounds(DebugInfo(1, 3))

RECURSIVE StripDeltas(_)
\* a tree without its delta nodes: the Output and Input nodes and the Loops,
\* in order, each with its position, the Loops with their children stripped
\* the same way
StripDeltas(nodes) ==
  IF nodes = <<>> THEN <<>>
  ELSE LET n == Head(nodes)
           rest == StripDeltas(Tail(nodes))
       IN IF n.kind \in DeltaKinds THEN rest
          ELSE IF n.kind = "Loop" THEN <<Loop(StripDeltas(n.nodes), n.d)>> \o rest
          ELSE <<n>> \o rest

RECURSIVE SumV(_)
SumV(nodes) == IF nodes = <<>> THEN 0 ELSE Head(nodes).v + SumV(Tail(nodes))

RECURSIVE MergedFrom(_, _)
\* opt is raw with some groups of adjacent sibling delta nodes of one kind
\* replaced each by one node of that kind, at the position of the group's
\* first node and with the wrapped sum of the group's counts; every other
\* node is kept, a Loop with its children related in the same way
MergedFrom(opt, raw) ==
  IF opt = <<>> THEN raw = <<>>
  ELSE /\ raw /= <<>>
       /\ LET o == Head(opt)
              r == Head(raw)
          IN /\ o.kind = r.kind
             /\ o.d = r.d
             /\ IF o.kind \in DeltaKinds
                THEN \E k \in 1..Len(raw) :
                       /\ \A j \in 1..k : raw[j].kind = o.kind
                       /\ o.v = SumV(SubSeq(raw, 1, k)) % CountMod(o.kind)
                       /\ MergedFrom(Tail(opt), SubSeq(raw, k + 1, Len(raw)))
                ELSE /\ o.kind = "Loop" => MergedFrom(o.nodes, r.nodes)
                     /\ o.kind /= "Loop" => o = r
                     /\ MergedFrom(Tail(opt), Tail(raw))

\* C16: after optimize the tree without its delta nodes is the tree before
\* without its delta nodes (same Output and Input nodes, same Loops, same
\* order, nesting and positions, none merged), and the delta nodes are the
\* old ones with only adjacent siblings of one kind put together.
C16_OnlyRunsMerged ==
  (pc = "optimized" /\ passes = 1) =>
    /\ StripDeltas(ast) = StripDeltas(prev_ast)
    /\ MergedFrom(ast, prev_ast)

C16_Witness ==
  /\ pc = "optimized"
  /\ passes = 1
  /\ source = <<"+", "+", "[", "+", "+", "]", "+">>
  /\ Len(prev_ast) = 4
  /\ Len(ast) = 3
  /\ Len(ast[2].nodes) = 1
  /\ ast[3].v = 1


RECURSIVE Unparse(_)
\* a tree written back out in order: a Loop as OpenBlock, its children,
\* CloseBlock; a leaf as its symbol.  A node has no position for the `]`, so
\* a CloseBlock is written with NoDebug.
Unparse(nodes) ==
  IF nodes = <<>> THEN <<>>
  ELSE LET n == Head(nodes)
       IN (IF n.kind = "Loop"
           THEN <<Symbol("OpenBlock", n.d)>> \o Unparse(n.nodes) \o <<Symbol("CloseBlock", NoDebug)>>
           ELSE <<Symbol(n.kind, n.d)>>)
          \o Unparse(Tail(nodes))

\* the symbols with the position of every CloseBlock left out
WithoutClosePos(s) ==
  [k \in 1..Len(s) |-> IF s[k].kind = "CloseBlock" THEN Symbol("CloseBlock", NoDebug) ELSE s[k]]

\* C17: while a balanced source is parsed every step takes exactly the front
\* symbol of the queue; when Ast::parse returns the queue is empty, the tree
\* written back out is the symbol sequence, kind by kind and in order, every
\* node has the position of the symbol it was made from (a Loop that of its
\* `[`), and every delta leaf has count 1.
C17_ParseRoundTrip ==
  /\ [][(pc = "parse" /\ pc' = "parse") => symbols' = Tail(symbols)]_vars
  /\ []((pc = "parsed" /\ Balanced(Syms(source))) =>
          /\ symbols = <<>>
          /\ Unparse(ast) = WithoutClosePos(Syms(source))
          /\ \A n \in AllNodes(ast) :
               /\ n.kind \in DeltaKinds => n.v = 1
               /\ n.kind \notin DeltaKinds => n.v = 0)

C17_Witness ==
  /\ pc = "parsed"
  /\ source = <<"+", "[", "[", "]", "]", "+">>
  /\ Len(ast) = 3
  /\ ast[2].d = DebugInfo(1, 2)
  /\ ast[2].nodes = <<Loop(<<>>, DebugInfo(1, 3))>>
  /\ ast[3] = Leaf("Increment", 1, DebugInfo(1, 6))

RECURSIVE LoopsInOrder(_)
\* the Loops of a tree in the order gen_ir_nodes meets them
LoopsInOrder(nodes) ==
  IF nodes = <<>> THEN <<>>
  ELSE (IF Head(nodes).kind = "Loop"
        THEN <<Head(nodes)>> \o LoopsInOrder(Head(nodes).nodes)
        ELSE <<>>)
       \o LoopsInOrder(Tail(nodes))

RECURSIVE LoweredLen(_)
\* the number of lines the nodes are lowered to
LoweredLen(nodes) ==
  IF nodes = <<>> THEN 0
  ELSE LET n == Head(nodes)
       IN (IF n.kind = "Loop" THEN 10 + LoweredLen(n.nodes)
           ELSE IF n.kind \in {"Increment", "Decrement"} THEN 5
           ELSE 3)
          + LoweredLen(Tail(nodes))

\* the lines of the conditional branches in the order of the text
CondBrSeq(t) == SelectSeq([i \in 1..Len(t) |-> i], LAMBDA i : t[i].op = "br_i1")

\* the line that defines the label l
LabelLine(t, l) == CHOOSE k \in LabelsAt(t) : t[k].def = l

\* the lines that branch to the label l
BranchesTo(t, l) == {k \in DOMAIN t : \E j \in DOMAIN t[k].targets : t[k].targets[j] = l}

\* C18: in the text gen_ir returns every label is defined once and every
\* branch goes to a defined label; the Loops of the tree, in order, are the
\* conditional branches of the text, in order; for each of them the text has
\* a branch to the header label, the header label, the load of the cell and
\* its comparison with zero, the branch on that comparison to the end label
\* if true and to the body label if false, the body label, the lines of the
\* Loop's children, a branch to the same header label, and the end label;
\* the body and end labels are branched to from the header only, the header
\* label from those two branches only.
C18_LoopBlocks ==
  pc = "emitted" =>
    /\ \A j, k \in LabelsAt(ir) : j /= k => ir[j].def /= ir[k].def
    /\ \A k \in DOMAIN ir : \A j \in DOMAIN ir[k].targets :
         \E l \in LabelsAt(ir) : ir[l].def = ir[k].targets[j]
    /\ Len(CondBrSeq(ir)) = Len(LoopsInOrder(ast))
    /\ Len(ir) = Len(Prelude(mem_size)) + LoweredLen(ast) + Len(Epilogue)
    /\ \A m \in DOMAIN CondBrSeq(ir) :
         LET k == CondBrSeq(ir)[m]
             header == ir[k - 5].def
             end == ir[k].targets[1]
             body == ir[k].targets[2]
             e == LabelLine(ir, end)
         IN /\ ir[k - 6].op = "br" /\ ir[k - 6].targets = <<header>>
            /\ ir[k - 5].op = "label"
            /\ ir[k - 4].op = "load_ptr"
            /\ ir[k - 3].op = "getelementptr" /\ ir[k - 3].uses = <<"@mem", ir[k - 4].def>>
            /\ ir[k - 2].op = "load_cell" /\ ir[k - 2].uses = <<ir[k - 3].def>>
            /\ ir[k - 1].op = "icmp_eq_zero" /\ ir[k - 1].uses = <<ir[k - 2].def>>
            /\ ir[k].uses = <<ir[k - 1].def>>
            /\ ir[k + 1].op = "label" /\ ir[k + 1].def = body
            /\ e > k + 1
            /\ e - (k + 2) - 1 = LoweredLen(LoopsInOrder(ast)[m].nodes)
            /\ ir[e - 1].op = "br" /\ ir[e - 1].targets = <<header>>
            /\ BranchesTo(ir, header) = {k - 6, e - 1}
            /\ BranchesTo(ir, body) = {k}
            /\ BranchesTo(ir, end) = {k}
            /\ \A i \in (k + 2)..(e - 2) : \A j \in DOMAIN ir[i].targets :
                 LabelLine(ir, ir[i].targets[j]) \in (k + 2)..(e - 2)

C18_Witness ==
  /\ pc = "emitted"
  /\ source = <<"[", "+", "[", "]", "]", "[", "]">>
  /\ Len(CondBrSeq(ir)) = 3
  /\ ir[Len(ir) - 3].op = "label"
  /\ ir[Len(ir) - 3].def = "l25"
====
